---- MODULE Spec2Model ----
(***************************************************************************)
(* Hand-simulation engine of src/src/App.tsx: the condition matcher        *)
(* (handMatches), the Fisher-Yates hand sampler and the simulation driver  *)
(* (runSimulation).                                                        *)
(***************************************************************************)
EXTENDS Integers, Sequences, FiniteSets, TLC

(***************************************************************************)
(* Bounds of the model.                                                    *)
(***************************************************************************)
MaxHand == 2
MaxCount == 2
MaxGroup == 2
MaxDeck == 4
MaxTrials == 2
MaxTargets == 2
MaxSaved == 1
MaxAdded == 103

(***************************************************************************)
(* Card identifiers and the metadata lookup (localStorage cardCache).      *)
(* "A" is a DARK monster, "B" a LIGHT monster, "C" has no cache entry.     *)
(***************************************************************************)
Cards == {"A", "B", "C"}

CardData(attribute, type, level, atk) ==
  [attribute |-> attribute, type |-> type, race |-> "Warrior",
   level |-> level, atk |-> atk, archetype |-> ""]

MatchCache ==
  [id \in {"A", "B"} |->
     IF id = "A" THEN CardData("DARK", "Effect Monster", 4, 1800)
                 ELSE CardData("LIGHT", "Normal Monster", 3, 1200)]

(***************************************************************************)
(* Group members.  attrKey is ('filterByAttribute' in groupItem); a string *)
(* predicate that is undefined or '' is "", a range bound that is          *)
(* undefined is NoBound.                                                   *)
(***************************************************************************)
NoBound == -1
NoRange == [min |-> NoBound, max |-> NoBound]

FilterCard(id, attrKey, attribute, type) ==
  [id |-> id, attrKey |-> attrKey, filterByAttribute |-> attribute,
   filterByType |-> type, filterByRace |-> "", filterByLevel |-> NoRange,
   filterByATK |-> NoRange, filterByArchetype |-> ""]

LiteralCard(id) == FilterCard(id, FALSE, "", "")

HandCardCondition(group, op, count) ==
  [group |-> group, op |-> op, count |-> count]

Ops == {"=", "<=", ">=", "!="}

(***************************************************************************)
(* handMatches, lines 933-1005.                                            *)
(***************************************************************************)
Occurrences(seq, x) == Cardinality({p \in 1..Len(seq) : seq[p] = x})

\* lines 934-938: counts of the hand, copied into remainingCounts
HandCounts(h) ==
  [id \in {h[p] : p \in 1..Len(h)} |-> Occurrences(h, id)]

\* remainingCounts[id] || 0
Remaining(rem, id) == IF id \in DOMAIN rem THEN rem[id] ELSE 0

\* variant: a card without a cache entry passes the filter
FilterAcceptsUncached(groupItem, id, cache) ==
  id \in DOMAIN cache =>
    LET card == cache[id] IN
    /\ ~(groupItem.filterByAttribute # ""
         /\ card.attribute # groupItem.filterByAttribute)
    /\ ~(groupItem.filterByType # "" /\ card.type # groupItem.filterByType)
    /\ ~(groupItem.filterByRace # "" /\ card.race # groupItem.filterByRace)
    /\ ~(groupItem.filterByLevel.min # NoBound
         /\ card.level < groupItem.filterByLevel.min)
    /\ ~(groupItem.filterByLevel.max # NoBound
         /\ card.level > groupItem.filterByLevel.max)
    /\ ~(groupItem.filterByATK.min # NoBound
         /\ card.atk < groupItem.filterByATK.min)
    /\ ~(groupItem.filterByATK.max # NoBound
         /\ card.atk > groupItem.filterByATK.max)
    /\ ~(groupItem.filterByArchetype # ""
         /\ card.archetype # groupItem.filterByArchetype)

\* the callback of hand.filter, lines 948-977
FilterAccepts(groupItem, id, cache) ==
  /\ id \in DOMAIN cache
  /\ LET card == cache[id] IN
     /\ ~(groupItem.filterByAttribute # ""
          /\ card.attribute # groupItem.filterByAttribute)
     /\ ~(groupItem.filterByType # "" /\ card.type # groupItem.filterByType)
     /\ ~(groupItem.filterByRace # "" /\ card.race # groupItem.filterByRace)
     /\ ~(groupItem.filterByLevel.min # NoBound
          /\ card.level < groupItem.filterByLevel.min)
     /\ ~(groupItem.filterByLevel.max # NoBound
          /\ card.level > groupItem.filterByLevel.max)
     /\ ~(groupItem.filterByATK.min # NoBound
          /\ card.atk < groupItem.filterByATK.min)
     /\ ~(groupItem.filterByATK.max # NoBound
          /\ card.atk > groupItem.filterByATK.max)
     /\ ~(groupItem.filterByArchetype # ""
          /\ card.archetype # groupItem.filterByArchetype)

FilteredHand(h, groupItem, cache) ==
  LET Keep(id) == FilterAccepts(groupItem, id, cache)
  IN SelectSeq(h, Keep)

\* lines 984-988: mark the filtered cards as consumed
RECURSIVE ConsumeFiltered(_, _)
ConsumeFiltered(rem, fh) ==
  IF fh = <<>> THEN rem
  ELSE LET id == Head(fh)
           r1 == IF Remaining(rem, id) > 0
                 THEN [rem EXCEPT ![id] = @ - 1] ELSE rem
       IN ConsumeFiltered(r1, Tail(fh))

\* what each card identifier adds to groupCount through one member
ItemContribution(h, groupItem, rem, cache) ==
  IF groupItem.attrKey
  THEN [id \in Cards |-> Occurrences(FilteredHand(h, groupItem, cache), id)]
  ELSE [id \in Cards |->
          IF id = groupItem.id /\ Remaining(rem, id) > 0 THEN 1 ELSE 0]

\* variant: duplicate copies are counted once
FilterCountDistinct(h, groupItem, cache) ==
  Cardinality({id \in Cards : Occurrences(FilteredHand(h, groupItem, cache), id) > 0})

\* lines 980-981: the amount a filter card adds to groupCount
FilterCount(h, groupItem, cache) ==
  Len(FilteredHand(h, groupItem, cache))

\* variant: a literal member is counted without the test of its
\* remaining count
EvalItemUnguarded(h, groupItem, st, cache) ==
  IF groupItem.attrKey
  THEN [rem |-> ConsumeFiltered(st.rem, FilteredHand(h, groupItem, cache)),
        groupCount |-> st.groupCount + FilterCount(h, groupItem, cache)]
  ELSE [rem |-> IF groupItem.id \in DOMAIN st.rem
                THEN [st.rem EXCEPT ![groupItem.id] = @ - 1] ELSE st.rem,
        groupCount |-> st.groupCount + 1]

\* one iteration of the loop over cond.group, lines 945-996
\* st = [rem |-> remainingCounts, groupCount |-> groupCount]
EvalItem(h, groupItem, st, cache) ==
  IF groupItem.attrKey
  THEN [rem |-> ConsumeFiltered(st.rem, FilteredHand(h, groupItem, cache)),
        groupCount |-> st.groupCount + FilterCount(h, groupItem, cache)]
  ELSE IF Remaining(st.rem, groupItem.id) > 0
       THEN [rem |-> [st.rem EXCEPT ![groupItem.id] = @ - 1],
             groupCount |-> st.groupCount + 1]
       ELSE st

RECURSIVE EvalGroup(_, _, _, _)
EvalGroup(h, group, st, cache) ==
  IF group = <<>> THEN st
  ELSE EvalGroup(h, Tail(group), EvalItem(h, Head(group), st, cache), cache)

\* variant: "<=" rejects a groupCount equal to the count
CondFailsStrict(cond, gc) ==
  \/ cond.op = "=" /\ gc # cond.count
  \/ cond.op = "<=" /\ gc >= cond.count
  \/ cond.op = ">=" /\ gc < cond.count
  \/ cond.op = "!=" /\ gc # 0

\* variant: "!=" compares groupCount with the stored count
CondFailsStoredCount(cond, gc) ==
  \/ cond.op = "=" /\ gc # cond.count
  \/ cond.op = "<=" /\ gc > cond.count
  \/ cond.op = ">=" /\ gc < cond.count
  \/ cond.op = "!=" /\ gc = cond.count

\* variant: ">=" rejects a groupCount equal to the count
CondFailsAtLeastStrict(cond, gc) ==
  \/ cond.op = "=" /\ gc # cond.count
  \/ cond.op = "<=" /\ gc > cond.count
  \/ cond.op = ">=" /\ gc <= cond.count
  \/ cond.op = "!=" /\ gc # 0

\* variant: the test of "!=" is inverted
CondFailsExcludeInverted(cond, gc) ==
  \/ cond.op = "=" /\ gc # cond.count
  \/ cond.op = "<=" /\ gc > cond.count
  \/ cond.op = ">=" /\ gc < cond.count
  \/ cond.op = "!=" /\ gc = 0

\* lines 999-1002: TRUE when one of the four checks returns false
CondFails(cond, gc) ==
  \/ cond.op = "=" /\ gc # cond.count
  \/ cond.op = "<=" /\ gc > cond.count
  \/ cond.op = ">=" /\ gc < cond.count
  \/ cond.op = "!=" /\ gc # 0

RECURSIVE MatchFrom(_, _, _, _)
MatchFrom(h, conds, rem, cache) ==
  IF conds = <<>> THEN TRUE
  ELSE LET st == EvalGroup(h, Head(conds).group,
                           [rem |-> rem, groupCount |-> 0], cache)
       IN IF CondFails(Head(conds), st.groupCount) THEN FALSE
          ELSE MatchFrom(h, Tail(conds), st.rem, cache)

handMatches(h, conds, cache) == MatchFrom(h, conds, HandCounts(h), cache)

(***************************************************************************)
(* The hand sampler, lines 1183-1188 (runSimulation) and 1244-1249         *)
(* (drawTestHand).  j and k are the 0-based indices of the code.           *)
(***************************************************************************)
\* variant: Math.floor(Math.random() * j), k never equals j
ChoicesBelow(j) == 0..(j - 1)

\* line 1185: Math.floor(Math.random() * (j + 1))
Choices(j) == 0..j

\* variant: the second half of the swap is lost
SwapOverwrite(seq, j, k) == [seq EXCEPT ![j + 1] = seq[k + 1]]

\* line 1186: [shuffled[j], shuffled[k]] = [shuffled[k], shuffled[j]]
Swap(seq, j, k) ==
  [seq EXCEPT ![j + 1] = seq[k + 1], ![k + 1] = seq[j + 1]]

\* the loop of lines 1184-1187 from index j on, drawing k from choices
RECURSIVE ShuffleFrom(_, _, _)
ShuffleFrom(seq, j, choices) ==
  IF j > 0
  THEN ShuffleFrom(Swap(seq, j, Head(choices)), j - 1, Tail(choices))
  ELSE seq

Shuffle(seq, choices) == ShuffleFrom(seq, Len(seq) - 1, choices)

\* the sequences of values Math.random can produce for a deck of n cards:
\* choices[t] is the k drawn at j = n - t
ChoiceSeqs(n) ==
  IF n <= 1 THEN {<<>>}
  ELSE {c \in [1..(n - 1) -> 0..(n - 1)] :
          \A t \in 1..(n - 1) : c[t] \in Choices(n - t)}

\* Array.prototype.slice(0, n), line 1188
Slice(seq, n) ==
  IF n < 0
  THEN SubSeq(seq, 1, IF Len(seq) + n > 0 THEN Len(seq) + n ELSE 0)
  ELSE SubSeq(seq, 1, IF n < Len(seq) THEN n ELSE Len(seq))

(***************************************************************************)
(* The body of one trial, lines 1196-1211.                                 *)
(***************************************************************************)
\* variant: the break is missing
RECURSIVE ExclusiveNoBreak(_, _, _, _, _)
ExclusiveNoBreak(cnt, h, targets, idx, cache) ==
  IF idx > Len(targets) THEN cnt
  ELSE ExclusiveNoBreak(
         IF handMatches(h, targets[idx], cache)
         THEN [cnt EXCEPT ![idx] = @ + 1] ELSE cnt,
         h, targets, idx + 1, cache)

\* lines 1199-1205: the first matching target is counted, then break
RECURSIVE ExclusiveFrom(_, _, _, _, _)
ExclusiveFrom(cnt, h, targets, idx, cache) ==
  IF idx > Len(targets) THEN cnt
  ELSE IF handMatches(h, targets[idx], cache)
       THEN [cnt EXCEPT ![idx] = @ + 1]
       ELSE ExclusiveFrom(cnt, h, targets, idx + 1, cache)

\* variant: the walk over the targets ends at the first match
RECURSIVE InclusiveStopsAtFirst(_, _, _, _, _)
InclusiveStopsAtFirst(cnt, h, targets, idx, cache) ==
  IF idx > Len(targets) THEN cnt
  ELSE IF handMatches(h, targets[idx], cache)
       THEN [cnt EXCEPT ![idx] = @ + 1]
       ELSE InclusiveStopsAtFirst(cnt, h, targets, idx + 1, cache)

\* lines 1208-1210: forEach target, count it if it matches
RECURSIVE InclusiveFrom(_, _, _, _, _)
InclusiveFrom(cnt, h, targets, idx, cache) ==
  IF idx > Len(targets) THEN cnt
  ELSE InclusiveFrom(
         IF handMatches(h, targets[idx], cache)
         THEN [cnt EXCEPT ![idx] = @ + 1] ELSE cnt,
         h, targets, idx + 1, cache)

\* variant: the exclusive flag is ignored
TrialCountsInclusiveOnly(cnt, h, targets, exclusive, cache) ==
  InclusiveFrom(cnt, h, targets, 1, cache)

\* line 1196: the mode decides the walk over the targets
TrialCounts(cnt, h, targets, exclusive, cache) ==
  IF exclusive THEN ExclusiveFrom(cnt, h, targets, 1, cache)
  ELSE InclusiveFrom(cnt, h, targets, 1, cache)

(***************************************************************************)
(* Inputs of the matcher.                                                  *)
(***************************************************************************)
SeqsUpTo(S, n) == UNION {[1..m -> S] : m \in 0..n}

Hands == SeqsUpTo(Cards, MaxHand)

FDark == FilterCard("filter_1", TRUE, "DARK", "")
FAny == FilterCard("filter_2", TRUE, "", "")

Members == {LiteralCard("A"), LiteralCard("B"), FDark, FAny}

Counts == 0..MaxCount

CondsOver(groups) ==
  {HandCardCondition(g, op, n) : g \in groups, op \in Ops, n \in Counts}

\* one condition over a group of up to MaxGroup members, or two conditions
\* over groups of at most one member
MatchTargets ==
  {<<c>> : c \in CondsOver(SeqsUpTo(Members, MaxGroup))}
    \cup {<<c, d>> : c \in CondsOver(SeqsUpTo(Members, 1)),
                     d \in CondsOver(SeqsUpTo(Members, 1))}

(***************************************************************************)
(* State.                                                                  *)
(***************************************************************************)
VARIABLES
  hand,             \* handMatches: the hand argument
  conditions,       \* handMatches: the conditions argument
  cardCache,        \* handMatches: the cardCache argument
  remainingCounts,  \* handMatches: remainingCounts
  groupCount,       \* handMatches: groupCount of the current condition
  ci,               \* index (1-based) of the condition being evaluated
  gi,               \* index (1-based) of the next member of cond.group
  contrib,          \* history: per identifier, total added to group counts
  groupCounts,      \* history: groupCount of every condition checked
  result,           \* "none" until handMatches returns, then TRUE or FALSE
  pc,               \* position in handMatches
  prevCall,         \* history: arguments and result of the previous call
  deck,             \* deck.main
  handSize,         \* the hand size input
  shuffled,         \* sampler: the copy of deck.main being shuffled
  perm,             \* history: the deck position each slot of shuffled holds
  j,                \* sampler: loop index of the shuffle (0-based)
  ks,               \* history: the values of k drawn so far
  drawn,            \* sampler: the hand sliced off the shuffled copy
  spc,              \* position in the sampler
  numSim,           \* the trial count input
  inputTargets,     \* the target hands being edited
  exclusiveMode,    \* the exclusive flag
  targetHands,      \* the target hands of the displayed results
  results,          \* the published hit counts
  running,          \* the running flag
  error,            \* the error message
  closure,          \* the inputs captured by the deferred callback
  counts,           \* the hit-count array of the running loop
  i,                \* the trial loop index
  trialHand,        \* the hand of the latest trial
  otherCounts,      \* history: hit counts of the other mode on the same hands
  multi,            \* history: some hand matched more than one target
  simpc,            \* position in runSimulation
  storage,          \* localStorage item "inputTargets"
  extra,            \* deck.extra
  side,             \* deck.side
  addCardTarget,    \* deck builder: the card of the add dialog, or "none"
  addCardQuantity,  \* deck builder: the quantity of the add dialog
  addCardError,     \* deck builder: the error message of the add dialog
  savedDeck,        \* localStorage item "deck:<name>"
  simulations,      \* server: the simulations array of the deck document
  added             \* history: number of addSimulationResult calls

matchVars == <<hand, conditions, remainingCounts, groupCount,
               ci, gi, contrib, groupCounts, result, pc, prevCall>>

shuffleVars == <<shuffled, perm, j, ks, drawn, spc>>

inputVars == <<deck, handSize, numSim, inputTargets, exclusiveMode>>

simVars == <<targetHands, results, running, error, closure, counts, i,
             trialHand, otherCounts, multi, simpc>>

builderVars == <<extra, side, addCardTarget, addCardQuantity, addCardError,
                 savedDeck>>

serverVars == <<simulations, added>>

extVars == <<storage, builderVars, serverVars>>

vars == <<matchVars, cardCache, shuffleVars, inputVars, simVars, extVars>>

NoCall == [hand |-> <<>>, conditions |-> <<>>, result |-> "none"]

\* the parts of the state a specification does not exercise
MatchIdle ==
  /\ hand = <<>> /\ conditions = <<>> /\ remainingCounts = <<>>
  /\ groupCount = 0 /\ ci = 1 /\ gi = 1
  /\ contrib = [id \in Cards |-> 0] /\ groupCounts = <<>>
  /\ result = "none" /\ pc = "idle" /\ prevCall = NoCall

ShuffleIdle ==
  /\ shuffled = <<>> /\ perm = <<>> /\ j = 0 /\ ks = <<>>
  /\ drawn = <<>> /\ spc = "idle"

NoClosure ==
  [deck |-> <<>>, handSize |-> 0, numSim |-> 0, inputTargets |-> <<>>,
   exclusiveMode |-> FALSE]

\* lines 1008-1013, 1063: the initial React state of HandSimulation
SimStateInit ==
  /\ targetHands = <<<<>>>> /\ results = <<>> /\ running = FALSE
  /\ error = "" /\ closure = NoClosure /\ counts = <<>> /\ i = 0
  /\ trialHand = <<>> /\ otherCounts = <<>> /\ multi = FALSE
  /\ simpc = "idle"

InputsIdle ==
  /\ deck = <<>> /\ handSize = 0 /\ numSim = 0
  /\ inputTargets = <<<<>>>> /\ exclusiveMode = FALSE

NoItem == "none"

EmptyDeck == [main |-> <<>>, extra |-> <<>>, side |-> <<>>]

\* localStorage holds no deck under the name
NoSaved == [present |-> FALSE, deck |-> EmptyDeck]

BuilderIdle ==
  /\ extra = <<>> /\ side = <<>> /\ addCardTarget = NoItem
  /\ addCardQuantity = 1 /\ addCardError = "" /\ savedDeck = NoSaved

ServerIdle == simulations = <<>> /\ added = 0

\* localStorage holds no item "inputTargets"
NoStored == [present |-> FALSE, json |-> <<>>]

ExtIdle == storage = NoStored /\ BuilderIdle /\ ServerIdle

(***************************************************************************)
(* The matcher as a state machine: one step per group member, one per      *)
(* operator check, one for the final return.                               *)
(***************************************************************************)
MatchInit ==
  /\ hand \in Hands
  /\ conditions \in MatchTargets
  /\ cardCache = MatchCache
  /\ remainingCounts = HandCounts(hand)
  /\ groupCount = 0
  /\ ci = 1
  /\ gi = 1
  /\ contrib = [id \in Cards |-> 0]
  /\ groupCounts = <<>>
  /\ result = "none"
  /\ pc = "loop"
  /\ prevCall = NoCall
  /\ ShuffleIdle /\ InputsIdle /\ SimStateInit /\ ExtIdle

\* lines 945-996, one member of the current group
MatchItem ==
  /\ pc = "loop"
  /\ ci <= Len(conditions)
  /\ gi <= Len(conditions[ci].group)
  /\ LET groupItem == conditions[ci].group[gi]
         st == EvalItem(hand, groupItem,
                        [rem |-> remainingCounts, groupCount |-> groupCount],
                        cardCache)
         add == ItemContribution(hand, groupItem, remainingCounts, cardCache)
     IN /\ remainingCounts' = st.rem
        /\ groupCount' = st.groupCount
        /\ contrib' = [id \in Cards |-> contrib[id] + add[id]]
  /\ gi' = gi + 1
  /\ UNCHANGED <<hand, conditions, cardCache, ci, groupCounts, result, pc>>
  /\ UNCHANGED <<prevCall, shuffleVars, inputVars, simVars>>
  /\ UNCHANGED extVars

\* lines 999-1002, the check fails: return false
MatchFail ==
  /\ pc = "loop"
  /\ ci <= Len(conditions)
  /\ gi > Len(conditions[ci].group)
  /\ CondFails(conditions[ci], groupCount)
  /\ groupCounts' = Append(groupCounts, groupCount)
  /\ result' = FALSE
  /\ pc' = "done"
  /\ UNCHANGED <<hand, conditions, cardCache, remainingCounts, groupCount,
                 ci, gi, contrib>>
  /\ UNCHANGED <<prevCall, shuffleVars, inputVars, simVars>>
  /\ UNCHANGED extVars

\* lines 999-1002, the check passes: next condition (line 940-941)
MatchPass ==
  /\ pc = "loop"
  /\ ci <= Len(conditions)
  /\ gi > Len(conditions[ci].group)
  /\ ~CondFails(conditions[ci], groupCount)
  /\ groupCounts' = Append(groupCounts, groupCount)
  /\ ci' = ci + 1
  /\ gi' = 1
  /\ groupCount' = 0
  /\ UNCHANGED <<hand, conditions, cardCache, remainingCounts, contrib,
                 result, pc>>
  /\ UNCHANGED <<prevCall, shuffleVars, inputVars, simVars>>
  /\ UNCHANGED extVars

\* line 1004
MatchReturn ==
  /\ pc = "loop"
  /\ ci > Len(conditions)
  /\ result' = TRUE
  /\ pc' = "done"
  /\ UNCHANGED <<hand, conditions, cardCache, remainingCounts, groupCount,
                 ci, gi, contrib, groupCounts>>
  /\ UNCHANGED <<prevCall, shuffleVars, inputVars, simVars>>
  /\ UNCHANGED extVars

MatchNext == MatchItem \/ MatchFail \/ MatchPass \/ MatchReturn

SpecMatch == MatchInit /\ [][MatchNext]_vars

\* the state machine and the operator compute the same function
MatchAgrees ==
  pc = "done" => result = handMatches(hand, conditions, cardCache)

(***************************************************************************)
(* The sampler as a state machine (drawTestHand, lines 1242-1251, and the  *)
(* same shuffle and slice of runSimulation, lines 1183-1188).              *)
(***************************************************************************)
SampleCards == {"A", "B"}

SampleDecks == SeqsUpTo(SampleCards, MaxDeck)

Positions(n) == [p \in 1..n |-> p]

ShuffleInit ==
  /\ deck \in SampleDecks
  /\ handSize \in 0..MaxDeck
  /\ numSim = 0 /\ inputTargets = <<<<>>>> /\ exclusiveMode = FALSE
  /\ ShuffleIdle
  /\ cardCache = MatchCache
  /\ MatchIdle /\ SimStateInit /\ ExtIdle

\* line 1243: if (deck.main.length < handSize) return
SampleReject ==
  /\ spc = "idle"
  /\ Len(deck) < handSize
  /\ spc' = "rejected"
  /\ UNCHANGED <<shuffled, perm, j, ks, drawn>>
  /\ UNCHANGED <<matchVars, cardCache, inputVars, simVars>>
  /\ UNCHANGED extVars

\* line 1244 (1183): const shuffled = [...deck.main], and the loop header
SampleCopy ==
  /\ spc = "idle"
  /\ ~(Len(deck) < handSize)
  /\ shuffled' = deck
  /\ perm' = Positions(Len(deck))
  /\ j' = Len(deck) - 1
  /\ ks' = <<>>
  /\ spc' = "shuffle"
  /\ UNCHANGED drawn
  /\ UNCHANGED <<matchVars, cardCache, inputVars, simVars>>
  /\ UNCHANGED extVars

\* variant: shuffled is deck.main itself, the swap is done in place
SampleSwapInPlace ==
  /\ spc = "shuffle"
  /\ j > 0
  /\ \E k \in Choices(j) :
       /\ deck' = Swap(deck, j, k)
       /\ shuffled' = Swap(deck, j, k)
       /\ perm' = Swap(perm, j, k)
       /\ ks' = Append(ks, k)
  /\ j' = j - 1
  /\ UNCHANGED <<drawn, spc>>
  /\ UNCHANGED <<handSize, numSim, inputTargets, exclusiveMode>>
  /\ UNCHANGED <<matchVars, cardCache, simVars>>
  /\ UNCHANGED extVars

\* lines 1245-1248 (1184-1187): one iteration of the shuffle loop
SampleSwap ==
  /\ spc = "shuffle"
  /\ j > 0
  /\ \E k \in Choices(j) :
       /\ shuffled' = Swap(shuffled, j, k)
       /\ perm' = Swap(perm, j, k)
       /\ ks' = Append(ks, k)
  /\ j' = j - 1
  /\ UNCHANGED <<drawn, spc>>
  /\ UNCHANGED <<matchVars, cardCache, inputVars, simVars>>
  /\ UNCHANGED extVars

\* line 1249 (1188): const hand = shuffled.slice(0, handSize)
SampleSlice ==
  /\ spc = "shuffle"
  /\ ~(j > 0)
  /\ drawn' = Slice(shuffled, handSize)
  /\ spc' = "done"
  /\ UNCHANGED <<shuffled, perm, j, ks>>
  /\ UNCHANGED <<matchVars, cardCache, inputVars, simVars>>
  /\ UNCHANGED extVars

\* line 1181 (1239): the next trial of the loop, or the next click on the
\* draw button; shuffled and hand are fresh constants of each draw
SampleAgain ==
  /\ spc \in {"done", "rejected"}
  /\ shuffled' = <<>>
  /\ perm' = <<>>
  /\ j' = 0
  /\ ks' = <<>>
  /\ drawn' = <<>>
  /\ spc' = "idle"
  /\ UNCHANGED <<matchVars, cardCache, inputVars, simVars>>
  /\ UNCHANGED extVars

ShuffleNext ==
  \/ SampleReject \/ SampleCopy \/ SampleSwap \/ SampleSlice \/ SampleAgain

SpecShuffle == ShuffleInit /\ [][ShuffleNext]_vars

\* the state machine and the operator compute the same shuffle
ShuffleAgrees ==
  spc = "done" => /\ shuffled = Shuffle(deck, ks)
                  /\ perm = Shuffle(Positions(Len(deck)), ks)
                  /\ ks \in ChoiceSeqs(Len(deck))

(***************************************************************************)
(* The simulation driver, runSimulation, lines 1167-1216.                  *)
(***************************************************************************)
SimDecks ==
  {<<"A">>, <<"A", "B">>, <<"A", "A", "B">>, <<"A", "B", "C">>}

SimHandSizes == {0} \cup {Len(d) : d \in SimDecks}

TargetA == <<HandCardCondition(<<LiteralCard("A")>>, ">=", 1)>>
TargetB == <<HandCardCondition(<<LiteralCard("B")>>, ">=", 1)>>
TargetDark == <<HandCardCondition(<<FDark>>, "=", 1)>>
TargetEmpty == <<>>

SimTargetPool == {TargetA, TargetB, TargetDark, TargetEmpty}

\* the hands the shuffle and slice of lines 1183-1188 can produce
Draws(d, h) == {Slice(Shuffle(d, c), h) : c \in ChoiceSeqs(Len(d))}

\* variant: the array has one entry too many
ZerosOneMore(n) == [t \in 1..(n + 1) |-> 0]

\* line 1180: new Array(n).fill(0)
Zeros(n) == [t \in 1..n |-> 0]

MatchingTargets(h, targets, cache) ==
  {t \in 1..Len(targets) : handMatches(h, targets[t], cache)}

\* variant: a deck one card short of the hand size passes
DeckTooSmallByTwo(d, h) == Len(d) + 1 < h

\* line 1169: deck.main.length < handSize
DeckTooSmall(d, h) == Len(d) < h

\* variant: only the first target hand is looked at
NoValidTargetFirstOnly(targets) ==
  IF Len(targets) = 0 THEN TRUE ELSE Len(targets[1]) = 0

\* line 1173: !inputTargets.length || inputTargets.some(t => t.length === 0)
NoValidTarget(targets) ==
  \/ Len(targets) = 0
  \/ \E t \in 1..Len(targets) : Len(targets[t]) = 0

\* lines 1170 and 1174: the two error messages
DeckError == "Deck does not have enough cards for the chosen hand size."
TargetError == "Please enter at least one valid target hand."

SimInit ==
  /\ deck \in SimDecks
  /\ handSize \in SimHandSizes
  /\ numSim \in 0..MaxTrials
  /\ inputTargets \in SeqsUpTo(SimTargetPool, MaxTargets)
  /\ exclusiveMode \in BOOLEAN
  /\ cardCache = MatchCache
  /\ SimStateInit /\ ExtIdle
  /\ MatchIdle /\ ShuffleIdle

\* variant: the rejected call also clears the displayed results
RunRejectDeckClears ==
  /\ simpc = "idle"
  /\ ~running
  /\ DeckTooSmall(deck, handSize)
  /\ error' = DeckError
  /\ results' = <<>>
  /\ UNCHANGED <<targetHands, running, closure, counts, i,
                 trialHand, otherCounts, multi, simpc>>
  /\ UNCHANGED <<matchVars, cardCache, shuffleVars, inputVars>>
  /\ UNCHANGED extVars

\* lines 1168-1172: the deck is too small
RunRejectDeck ==
  /\ simpc = "idle"
  /\ ~running
  /\ DeckTooSmall(deck, handSize)
  /\ error' = DeckError
  /\ UNCHANGED <<targetHands, results, running, closure, counts, i,
                 trialHand, otherCounts, multi, simpc>>
  /\ UNCHANGED <<matchVars, cardCache, shuffleVars, inputVars>>
  /\ UNCHANGED extVars

\* lines 1168, 1173-1176: no target hand, or one without conditions
RunRejectTargets ==
  /\ simpc = "idle"
  /\ ~running
  /\ ~DeckTooSmall(deck, handSize)
  /\ NoValidTarget(inputTargets)
  /\ error' = TargetError
  /\ UNCHANGED <<targetHands, results, running, closure, counts, i,
                 trialHand, otherCounts, multi, simpc>>
  /\ UNCHANGED <<matchVars, cardCache, shuffleVars, inputVars>>
  /\ UNCHANGED extVars

\* lines 1168, 1177-1179: the run is accepted and the callback scheduled;
\* the callback closes over the inputs of this render
RunAccept ==
  /\ simpc = "idle"
  /\ ~running
  /\ ~DeckTooSmall(deck, handSize)
  /\ ~NoValidTarget(inputTargets)
  /\ error' = ""
  /\ targetHands' = inputTargets
  /\ running' = TRUE
  /\ closure' = [deck |-> deck, handSize |-> handSize, numSim |-> numSim,
                 inputTargets |-> inputTargets,
                 exclusiveMode |-> exclusiveMode]
  /\ simpc' = "deferred"
  /\ UNCHANGED <<results, counts, i, trialHand, otherCounts, multi>>
  /\ UNCHANGED <<matchVars, cardCache, shuffleVars, inputVars>>
  /\ UNCHANGED extVars

\* line 1180 and the loop header of line 1181: the callback starts
TimeoutStart ==
  /\ simpc = "deferred"
  /\ counts' = Zeros(Len(closure.inputTargets))
  /\ otherCounts' = Zeros(Len(closure.inputTargets))
  /\ multi' = FALSE
  /\ i' = 0
  /\ simpc' = "loop"
  /\ UNCHANGED <<targetHands, results, running, error, closure, trialHand>>
  /\ UNCHANGED <<matchVars, cardCache, shuffleVars, inputVars>>
  /\ UNCHANGED extVars

\* lines 1181-1212: one trial
Trial ==
  /\ simpc = "loop"
  /\ i < closure.numSim
  /\ \E h \in Draws(closure.deck, closure.handSize) :
       /\ trialHand' = h
       /\ counts' = TrialCounts(counts, h, closure.inputTargets,
                                closure.exclusiveMode, cardCache)
       /\ otherCounts' = TrialCounts(otherCounts, h, closure.inputTargets,
                                     ~closure.exclusiveMode, cardCache)
       /\ multi' = (multi \/ Cardinality(MatchingTargets(
                                 h, closure.inputTargets, cardCache)) > 1)
  /\ i' = i + 1
  /\ UNCHANGED <<targetHands, results, running, error, closure, simpc>>
  /\ UNCHANGED <<matchVars, cardCache, shuffleVars, inputVars>>
  /\ UNCHANGED extVars

\* variant: the callback publishes without resetting the running flag
PublishKeepsRunning ==
  /\ simpc = "loop"
  /\ ~(i < closure.numSim)
  /\ results' = counts
  /\ simpc' = "idle"
  /\ UNCHANGED <<targetHands, running, error, closure, counts, i, trialHand,
                 otherCounts, multi>>
  /\ UNCHANGED <<matchVars, cardCache, shuffleVars, inputVars>>
  /\ UNCHANGED extVars

\* lines 1213-1214: the loop is over, the counts are published
Publish ==
  /\ simpc = "loop"
  /\ ~(i < closure.numSim)
  /\ results' = counts
  /\ running' = FALSE
  /\ simpc' = "idle"
  /\ UNCHANGED <<targetHands, error, closure, counts, i, trialHand,
                 otherCounts, multi>>
  /\ UNCHANGED <<matchVars, cardCache, shuffleVars, inputVars>>
  /\ UNCHANGED extVars

SimNext ==
  \/ RunRejectDeck \/ RunRejectTargets \/ RunAccept
  \/ TimeoutStart \/ Trial \/ Publish

SpecSim == SimInit /\ [][SimNext]_vars

(***************************************************************************)
(* The simulation with the trial-count input edited between and during     *)
(* runs, and the percentage column of the results table.                   *)
(***************************************************************************)
EditDecks == {<<"A">>, <<"A", "B">>}
EditHandSizes == {1, 2}
EditTargets == {<<>>, <<TargetA>>, <<TargetA, TargetB>>}

EditInit ==
  /\ deck \in EditDecks
  /\ handSize \in EditHandSizes
  /\ numSim \in 0..MaxTrials
  /\ inputTargets \in EditTargets
  /\ exclusiveMode \in BOOLEAN
  /\ cardCache = MatchCache
  /\ SimStateInit /\ ExtIdle
  /\ MatchIdle /\ ShuffleIdle

\* line 1449: onChange of the "Number of simulations" input; the handler
\* runs between renders, so not inside the timeout callback
EditNumSim ==
  /\ simpc \in {"idle", "deferred"}
  /\ \E n \in 0..MaxTrials :
       /\ n # numSim
       /\ numSim' = n
  /\ UNCHANGED <<deck, handSize, inputTargets, exclusiveMode>>
  /\ UNCHANGED <<matchVars, cardCache, shuffleVars, simVars>>
  /\ UNCHANGED extVars

EditNext == SimNext \/ EditNumSim

SpecEdit == EditInit /\ [][EditNext]_vars

\* line 1179: the browser runs the timeout callback once its delay has
\* passed, and the callback runs its loop to the end without yielding
SpecLive ==
  /\ EditInit
  /\ [][EditNext]_vars
  /\ WF_vars(TimeoutStart)
  /\ WF_vars(Trial)
  /\ WF_vars(Publish)

\* line 1879: ((hits / n) * 100).toFixed(2), in hundredths of a percent;
\* 0 / 0 is NaN and hits / 0 is Infinity
Percentage(hits, n) ==
  IF n = 0
    THEN [text |-> IF hits = 0 THEN "NaN" ELSE "Infinity", hundredths |-> 0]
    ELSE [text |-> "number", hundredths |-> (hits * 10000 + n \div 2) \div n]

\* line 1879: the "%" cell of row idx, computed from the numSim state of the
\* current render
ShownPercent(idx) == Percentage(results[idx], numSim)

(***************************************************************************)
(* Successive calls of handMatches, as the trial loop makes them (lines    *)
(* 1200 and 1209): every call builds counts and remainingCounts anew       *)
(* (lines 934-938).                                                        *)
(***************************************************************************)
CallCards == {"A", "B"}

CallHands == SeqsUpTo(CallCards, MaxHand)

CallTargets ==
  {TargetA, TargetB, TargetDark,
   <<HandCardCondition(<<LiteralCard("A")>>, ">=", 1),
     HandCardCondition(<<FDark>>, "=", 0)>>,
   <<HandCardCondition(<<LiteralCard("A"), LiteralCard("B")>>, "=", 2)>>,
   <<HandCardCondition(<<FAny>>, "!=", 0)>>}

CallsInit ==
  /\ hand \in CallHands
  /\ conditions \in CallTargets
  /\ cardCache = MatchCache
  /\ remainingCounts = HandCounts(hand)
  /\ groupCount = 0
  /\ ci = 1
  /\ gi = 1
  /\ contrib = [id \in Cards |-> 0]
  /\ groupCounts = <<>>
  /\ result = "none"
  /\ pc = "loop"
  /\ prevCall = NoCall
  /\ ShuffleIdle /\ InputsIdle /\ SimStateInit /\ ExtIdle

\* variant: remainingCounts outlives the call
MatchCallLeaky ==
  /\ pc = "done"
  /\ hand' \in CallHands
  /\ conditions' \in CallTargets
  /\ prevCall' = [hand |-> hand, conditions |-> conditions,
                  result |-> result]
  /\ remainingCounts' = remainingCounts
  /\ groupCount' = 0
  /\ ci' = 1
  /\ gi' = 1
  /\ contrib' = [id \in Cards |-> 0]
  /\ groupCounts' = <<>>
  /\ result' = "none"
  /\ pc' = "loop"
  /\ UNCHANGED <<cardCache, shuffleVars, inputVars, simVars>>
  /\ UNCHANGED extVars

\* lines 933-941: the next call of handMatches
MatchCall ==
  /\ pc = "done"
  /\ hand' \in CallHands
  /\ conditions' \in CallTargets
  /\ prevCall' = [hand |-> hand, conditions |-> conditions,
                  result |-> result]
  /\ remainingCounts' = HandCounts(hand')
  /\ groupCount' = 0
  /\ ci' = 1
  /\ gi' = 1
  /\ contrib' = [id \in Cards |-> 0]
  /\ groupCounts' = <<>>
  /\ result' = "none"
  /\ pc' = "loop"
  /\ UNCHANGED <<cardCache, shuffleVars, inputVars, simVars>>
  /\ UNCHANGED extVars

CallsNext == MatchNext \/ MatchCall

SpecCalls == CallsInit /\ [][CallsNext]_vars

(***************************************************************************)
(* The matcher on filter cards: one condition over filter members with     *)
(* different predicates and a literal naming the card without cache entry, *)
(* under two metadata lookups.                                             *)
(***************************************************************************)
\* a lookup in which both cached cards are DARK
DarkCache ==
  [id \in {"A", "B"} |->
     IF id = "A" THEN CardData("DARK", "Effect Monster", 4, 1800)
                 ELSE CardData("DARK", "Normal Monster", 3, 1200)]

FilterCaches == {MatchCache, DarkCache}

FType == FilterCard("filter_3", TRUE, "", "Effect Monster")
FLevel == [FAny EXCEPT !.id = "filter_4",
                       !.filterByLevel = [min |-> 4, max |-> NoBound]]

FilterMembers == {LiteralCard("C"), FDark, FAny, FType, FLevel}

FilterTargets == {<<c>> : c \in CondsOver(SeqsUpTo(FilterMembers, MaxGroup))}

FilterInit ==
  /\ hand \in Hands
  /\ conditions \in FilterTargets
  /\ cardCache \in FilterCaches
  /\ remainingCounts = HandCounts(hand)
  /\ groupCount = 0
  /\ ci = 1
  /\ gi = 1
  /\ contrib = [id \in Cards |-> 0]
  /\ groupCounts = <<>>
  /\ result = "none"
  /\ pc = "loop"
  /\ prevCall = NoCall
  /\ ShuffleIdle /\ InputsIdle /\ SimStateInit /\ ExtIdle

SpecFilter == FilterInit /\ [][MatchNext]_vars

(***************************************************************************)
(* The matcher on filter cards that specify any subset of the predicates.  *)
(* The fields of FilterCard are all optional: the member object carries    *)
(* the key filterByAttribute (attrKey) when an attribute is specified, and *)
(* with or without it otherwise.                                           *)
(***************************************************************************)
LevelRanges == {NoRange, [min |-> 4, max |-> NoBound]}
ATKRanges == {NoRange, [min |-> NoBound, max |-> 1500]}

SubsetMembers ==
  {m \in [id : {"filter_5"}, attrKey : BOOLEAN,
          filterByAttribute : {"", "DARK"},
          filterByType : {"", "Effect Monster"},
          filterByRace : {""},
          filterByLevel : LevelRanges,
          filterByATK : ATKRanges,
          filterByArchetype : {""}] :
     /\ m.filterByAttribute # "" => m.attrKey
     /\ ~m.attrKey => \/ m.filterByType # ""
                      \/ m.filterByLevel # NoRange
                      \/ m.filterByATK # NoRange}

SubsetTargets == {<<c>> : c \in CondsOver({<<m>> : m \in SubsetMembers})}

SubsetInit ==
  /\ hand \in Hands
  /\ conditions \in SubsetTargets
  /\ cardCache \in FilterCaches
  /\ remainingCounts = HandCounts(hand)
  /\ groupCount = 0
  /\ ci = 1
  /\ gi = 1
  /\ contrib = [id \in Cards |-> 0]
  /\ groupCounts = <<>>
  /\ result = "none"
  /\ pc = "loop"
  /\ prevCall = NoCall
  /\ ShuffleIdle /\ InputsIdle /\ SimStateInit /\ ExtIdle

SpecSubset == SubsetInit /\ [][MatchNext]_vars

(***************************************************************************)
(* The inputTargets item of localStorage.  JSON.stringify leaves out every *)
(* property whose value is undefined; attrKey of a member of the JSON text *)
(* says whether the text holds the key filterByAttribute.                  *)
(***************************************************************************)
StringifyMember(m) == [m EXCEPT !.attrKey = (@ /\ m.filterByAttribute # "")]

StringifyCondition(cond) ==
  [cond EXCEPT !.group = [g \in 1..Len(cond.group) |->
                            StringifyMember(cond.group[g])]]

\* lines 1071-1076: JSON.stringify(inputTargets)
Stringify(targets) ==
  [present |-> TRUE,
   json |-> [t \in 1..Len(targets) |->
               [c \in 1..Len(targets[t]) |->
                  StringifyCondition(targets[t][c])]]]

\* lines 1045-1051: JSON.parse of the stored text, [[]] when there is none
Restore(item) == IF item.present THEN item.json ELSE <<<<>>>>

(***************************************************************************)
(* The simulation with every input of the page edited between and during   *)
(* runs.  deck is a prop of HandSimulation and is fixed while it is        *)
(* mounted.                                                                *)
(***************************************************************************)
InputsInit ==
  /\ deck \in EditDecks
  /\ handSize \in EditHandSizes
  /\ numSim \in 0..MaxTrials
  /\ inputTargets \in EditTargets
  /\ exclusiveMode \in BOOLEAN
  /\ cardCache = MatchCache
  /\ SimStateInit
  /\ storage = Stringify(inputTargets)
  /\ BuilderIdle /\ ServerIdle
  /\ MatchIdle /\ ShuffleIdle

\* the handlers run between renders, so not inside the timeout callback
BetweenRenders == simpc \in {"idle", "deferred"}

\* line 1458: onChange of the "Hand size" input
EditHandSize ==
  /\ BetweenRenders
  /\ \E h \in EditHandSizes :
       /\ h # handSize
       /\ handSize' = h
  /\ UNCHANGED <<deck, numSim, inputTargets, exclusiveMode>>
  /\ UNCHANGED <<matchVars, cardCache, shuffleVars, simVars, extVars>>

\* line 1475: onChange of the exclusive checkbox
EditExclusiveMode ==
  /\ BetweenRenders
  /\ exclusiveMode' = ~exclusiveMode
  /\ UNCHANGED <<deck, handSize, numSim, inputTargets>>
  /\ UNCHANGED <<matchVars, cardCache, shuffleVars, simVars, extVars>>

\* lines 1091-1163: the handlers of the pattern builder, each followed by
\* the effect of lines 1071-1076 that stores the new value
EditInputTargets ==
  /\ BetweenRenders
  /\ \E t \in EditTargets :
       /\ t # inputTargets
       /\ inputTargets' = t
  /\ storage' = Stringify(inputTargets')
  /\ UNCHANGED <<deck, handSize, numSim, exclusiveMode>>
  /\ UNCHANGED <<matchVars, cardCache, shuffleVars, simVars>>
  /\ UNCHANGED <<builderVars, serverVars>>

InputsNext ==
  \/ SimNext
  \/ EditNumSim \/ EditHandSize \/ EditExclusiveMode \/ EditInputTargets

SpecInputs == InputsInit /\ [][InputsNext]_vars

(***************************************************************************)
(* The pattern builder with its persistence: one target hand of one        *)
(* condition, members added and filter cards edited, every change stored,  *)
(* and the page reloaded.                                                  *)
(***************************************************************************)
\* lines 1123-1131: the filter card addFilterCardToGroup creates; every
\* predicate is undefined, the key filterByAttribute is there
NewFilterCard == FilterCard("filter_6", TRUE, "", "")

PersistInit ==
  /\ \E op \in Ops, n \in Counts :
       inputTargets = <<<<HandCardCondition(<<>>, op, n)>>>>
  /\ storage = Stringify(inputTargets)
  /\ deck = <<>> /\ handSize = 0 /\ numSim = 0 /\ exclusiveMode = FALSE
  /\ cardCache = MatchCache
  /\ BuilderIdle /\ ServerIdle
  /\ MatchIdle /\ ShuffleIdle /\ SimStateInit

\* the group of the only condition, replaced by g; the effect of lines
\* 1071-1076 stores the new value
SetGroup(g) ==
  /\ inputTargets' = [inputTargets EXCEPT ![1][1].group = g]
  /\ storage' = Stringify(inputTargets')
  /\ UNCHANGED <<deck, handSize, numSim, exclusiveMode>>
  /\ UNCHANGED <<matchVars, cardCache, shuffleVars, simVars>>
  /\ UNCHANGED <<builderVars, serverVars>>

\* lines 1110-1120
addCardToGroup ==
  /\ Len(inputTargets[1][1].group) < MaxGroup
  /\ \E card \in CallCards :
       SetGroup(Append(inputTargets[1][1].group, LiteralCard(card)))

\* lines 1123-1140
addFilterCardToGroup ==
  /\ Len(inputTargets[1][1].group) < MaxGroup
  /\ SetGroup(Append(inputTargets[1][1].group, NewFilterCard))

\* lines 1625-1628, 1976-1989: the attribute select of the filter editor,
\* which opens only for a member with the key filterByAttribute; "Any" is
\* the empty value and is stored as undefined
SetFilterAttribute ==
  \E g \in 1..Len(inputTargets[1][1].group), v \in {"", "DARK"} :
    /\ inputTargets[1][1].group[g].attrKey
    /\ SetGroup([inputTargets[1][1].group EXCEPT
                   ![g].filterByAttribute = v, ![g].attrKey = TRUE])

\* lines 1625-1628, 2007-2020: the type select of the filter editor
SetFilterType ==
  \E g \in 1..Len(inputTargets[1][1].group), v \in {"", "Effect Monster"} :
    /\ inputTargets[1][1].group[g].attrKey
    /\ SetGroup([inputTargets[1][1].group EXCEPT ![g].filterByType = v])

\* lines 1045-1051, 1071-1076: the page is loaded again, the state is read
\* from localStorage and stored once more
Reload ==
  /\ inputTargets' = Restore(storage)
  /\ storage' = Stringify(inputTargets')
  /\ UNCHANGED <<deck, handSize, numSim, exclusiveMode>>
  /\ UNCHANGED <<matchVars, cardCache, shuffleVars, simVars>>
  /\ UNCHANGED <<builderVars, serverVars>>

PersistNext ==
  \/ addCardToGroup \/ addFilterCardToGroup
  \/ SetFilterAttribute \/ SetFilterType \/ Reload

SpecPersist == PersistInit /\ [][PersistNext]_vars

(***************************************************************************)
(* The deck document of the server: addSimulationResult, as POST           *)
(* /simulation calls it.  A result is named by its ordinal among the calls.*)
(***************************************************************************)
KeepLast == 100

\* variant: the oldest n elements are kept
SliceFirst(seq, n) == SubSeq(seq, 1, n)

\* line 230: seq.slice(-n)
SliceLast(seq, n) ==
  IF Len(seq) <= n THEN seq ELSE SubSeq(seq, Len(seq) - n + 1, Len(seq))

ServerInit ==
  /\ simulations = <<>>
  /\ added = 0
  /\ cardCache = MatchCache
  /\ storage = NoStored /\ BuilderIdle
  /\ MatchIdle /\ ShuffleIdle /\ InputsIdle /\ SimStateInit

\* part_000 lines 225-234, called at analytics.js lines 310-315
addSimulationResult ==
  /\ added < MaxAdded
  /\ added' = added + 1
  /\ LET pushed == Append(simulations, added + 1) IN
     simulations' = IF Len(pushed) > KeepLast
                    THEN SliceLast(pushed, KeepLast) ELSE pushed
  /\ UNCHANGED <<matchVars, cardCache, shuffleVars, inputVars, simVars>>
  /\ UNCHANGED <<storage, builderVars>>

SpecServer == ServerInit /\ [][addSimulationResult]_vars

(***************************************************************************)
(* The deck builder of AppMain: the add dialog, drops from the search      *)
(* results, moves, removal, clearing, YDK upload, saving and loading.      *)
(***************************************************************************)
BuilderCards == {"A", "B"}
SectionNames == {"main", "extra", "side"}
MaxCopies == 3

TooManyCopies ==
  "You cannot have more than 3 copies of a card across all decks."

\* the deck state as the object { main, extra, side }
DeckSections == [main |-> deck, extra |-> extra, side |-> side]

SetDeck(d) == deck' = d.main /\ extra' = d.extra /\ side' = d.side

TotalCards(d) == Len(d.main) + Len(d.extra) + Len(d.side)

\* lines 2250-2252
getTotalCopies(d, id) ==
  Occurrences(d.main, id) + Occurrences(d.extra, id)
    + Occurrences(d.side, id)

Min(a, b) == IF a <= b THEN a ELSE b
Max(a, b) == IF a >= b THEN a ELSE b

Copies(n, id) == [p \in 1..n |-> id]

\* positions are 0-based, as in the code
InsertAt(seq, idx, x) ==
  SubSeq(seq, 1, idx) \o <<x>> \o SubSeq(seq, idx + 1, Len(seq))
RemoveAt(seq, idx) ==
  SubSeq(seq, 1, idx) \o SubSeq(seq, idx + 2, Len(seq))

\* a line of a YDK file: its kind is what the startsWith tests of parseYDK
\* see, its text is the trimmed line
YdkLine(kind, text) == [kind |-> kind, text |-> text]

\* UploadYDK.tsx lines 13-18: one line of the file
ParseLine(st, line) ==
  IF line.kind = "#main" THEN [st EXCEPT !.current = "main"]
  ELSE IF line.kind = "#extra" THEN [st EXCEPT !.current = "extra"]
  ELSE IF line.kind = "!side" THEN [st EXCEPT !.current = "side"]
  ELSE IF line.kind = "id" /\ st.current # ""
       THEN [st EXCEPT !.sections[st.current] = Append(@, line.text)]
       ELSE st

RECURSIVE ParseLines(_, _)
ParseLines(st, lines) ==
  IF lines = <<>> THEN st
  ELSE ParseLines(ParseLine(st, Head(lines)), Tail(lines))

\* UploadYDK.tsx lines 10-20
parseYDK(content) ==
  ParseLines([current |-> "", sections |-> EmptyDeck], content).sections

YdkFiles ==
  {<<YdkLine("id", "B"), YdkLine("#main", ""), YdkLine("id", "A"),
     YdkLine("id", "A"), YdkLine("#extra", ""), YdkLine("id", "B"),
     YdkLine("blank", ""), YdkLine("!side", ""), YdkLine("id", "A")>>,
   <<YdkLine("#comment", ""), YdkLine("#main", ""), YdkLine("id", "A"),
     YdkLine("id", "A"), YdkLine("id", "A"), YdkLine("id", "A"),
     YdkLine("#extra", ""), YdkLine("!side", "")>>,
   <<YdkLine("#main", ""), YdkLine("id", "A"), YdkLine("id", "A"),
     YdkLine("#extra", ""), YdkLine("!side", ""), YdkLine("id", "A"),
     YdkLine("id", "A")>>}

\* lines 2166-2181: the initial state of AppMain with nothing stored
BuilderInit ==
  /\ deck = <<>> /\ extra = <<>> /\ side = <<>>
  /\ cardCache = <<>>
  /\ addCardTarget = NoItem /\ addCardQuantity = 1 /\ addCardError = ""
  /\ savedDeck = NoSaved
  /\ handSize = 0 /\ numSim = 0
  /\ inputTargets = <<<<>>>> /\ exclusiveMode = FALSE
  /\ storage = NoStored /\ ServerIdle
  /\ MatchIdle /\ ShuffleIdle /\ SimStateInit

BuilderFrame ==
  /\ UNCHANGED <<handSize, numSim, inputTargets, exclusiveMode>>
  /\ UNCHANGED <<matchVars, shuffleVars, simVars, storage, serverVars>>

\* the add dialog covers the page: nothing else can be clicked or dropped
\* on while it is open
DialogClosed == addCardTarget = NoItem

\* lines 2244-2248: the Add button of a search result
handleAddCard ==
  /\ DialogClosed
  /\ \E card \in BuilderCards : addCardTarget' = card
  /\ addCardQuantity' = 1
  /\ addCardError' = ""
  /\ UNCHANGED <<deck, extra, side, savedDeck, cardCache>>
  /\ BuilderFrame

\* line 2698: onChange of the Copies input
SetQuantity ==
  /\ ~DialogClosed
  /\ \E v \in 0..(MaxCopies + 1) :
       addCardQuantity' =
         Max(1, Min(MaxCopies - getTotalCopies(DeckSections, addCardTarget),
                    v))
  /\ UNCHANGED <<deck, extra, side, savedDeck, cardCache, addCardTarget,
                 addCardError>>
  /\ BuilderFrame

\* the Cancel button of the dialog
CancelAdd ==
  /\ ~DialogClosed
  /\ addCardTarget' = NoItem
  /\ UNCHANGED <<deck, extra, side, savedDeck, cardCache, addCardQuantity,
                 addCardError>>
  /\ BuilderFrame

\* lines 2256-2260: the total is already 3
ConfirmRejectTotal ==
  /\ ~DialogClosed
  /\ getTotalCopies(DeckSections, addCardTarget) >= MaxCopies
  /\ addCardError' = TooManyCopies
  /\ UNCHANGED <<deck, extra, side, savedDeck, cardCache, addCardTarget,
                 addCardQuantity>>
  /\ BuilderFrame

\* lines 2254-2288: the copies are appended to the chosen section; the
\* return of lines 2262-2265 is never taken, addCardQuantity being >= 1
confirmAddCard ==
  /\ ~DialogClosed
  /\ LET total == getTotalCopies(DeckSections, addCardTarget)
         toAdd == Min(addCardQuantity, MaxCopies - total)
     IN /\ total < MaxCopies
        /\ toAdd > 0
        /\ TotalCards(DeckSections) + toAdd <= MaxDeck
        /\ \E section \in SectionNames :
             SetDeck([DeckSections EXCEPT
                        ![section] = @ \o Copies(toAdd, addCardTarget)])
  /\ cardCache' = [id \in DOMAIN cardCache \cup {addCardTarget} |->
                     IF id = addCardTarget THEN MatchCache[id]
                     ELSE cardCache[id]]
  /\ addCardTarget' = NoItem
  /\ addCardError' = ""
  /\ UNCHANGED <<savedDeck, addCardQuantity>>
  /\ BuilderFrame

\* lines 2326-2342: a search result dropped on a card slot
CardDropSearch ==
  /\ DialogClosed
  /\ TotalCards(DeckSections) < MaxDeck
  /\ \E id \in BuilderCards, section \in SectionNames :
       \E idx \in 0..(Len(DeckSections[section]) - 1) :
         /\ ~(getTotalCopies(DeckSections, id) >= MaxCopies)
         /\ SetDeck([DeckSections EXCEPT ![section] = InsertAt(@, idx, id)])
  /\ addCardTarget' = NoItem
  /\ UNCHANGED <<savedDeck, cardCache, addCardQuantity, addCardError>>
  /\ BuilderFrame

\* lines 2360-2379: a search result dropped on a section
SectionDropSearch ==
  /\ DialogClosed
  /\ TotalCards(DeckSections) < MaxDeck
  /\ \E id \in BuilderCards, section \in SectionNames :
       /\ ~(getTotalCopies(DeckSections, id) >= MaxCopies)
       /\ SetDeck([DeckSections EXCEPT ![section] = Append(@, id)])
  /\ addCardTarget' = NoItem
  /\ UNCHANGED <<savedDeck, cardCache, addCardQuantity, addCardError>>
  /\ BuilderFrame

\* lines 2343-2357: a deck card dropped on a card slot
CardDropDeck ==
  /\ DialogClosed
  /\ \E from \in SectionNames, section \in SectionNames :
       \E fromIdx \in 0..(Len(DeckSections[from]) - 1),
          idx \in 0..(Len(DeckSections[section]) - 1) :
         LET id == DeckSections[from][fromIdx + 1] IN
         IF from = section
         THEN /\ fromIdx # idx
              /\ SetDeck([DeckSections EXCEPT
                            ![section] = InsertAt(RemoveAt(@, fromIdx),
                                                  idx, id)])
         ELSE SetDeck([DeckSections EXCEPT
                         ![from] = RemoveAt(@, fromIdx),
                         ![section] = InsertAt(@, idx, id)])
  /\ UNCHANGED <<savedDeck, cardCache, addCardTarget, addCardQuantity,
                 addCardError>>
  /\ BuilderFrame

\* lines 2380-2394: a deck card dropped on a section
SectionDropDeck ==
  /\ DialogClosed
  /\ \E from \in SectionNames, section \in SectionNames :
       \E fromIdx \in 0..(Len(DeckSections[from]) - 1) :
         LET id == DeckSections[from][fromIdx + 1] IN
         IF from = section
         THEN /\ fromIdx # Len(DeckSections[section]) - 1
              /\ SetDeck([DeckSections EXCEPT
                            ![section] = Append(RemoveAt(@, fromIdx), id)])
         ELSE SetDeck([DeckSections EXCEPT
                         ![from] = RemoveAt(@, fromIdx),
                         ![section] = Append(@, id)])
  /\ UNCHANGED <<savedDeck, cardCache, addCardTarget, addCardQuantity,
                 addCardError>>
  /\ BuilderFrame

\* lines 2290-2295
handleRemoveCard ==
  /\ DialogClosed
  /\ \E section \in SectionNames :
       \E idx \in 0..(Len(DeckSections[section]) - 1) :
         SetDeck([DeckSections EXCEPT ![section] = RemoveAt(@, idx)])
  /\ UNCHANGED <<savedDeck, cardCache, addCardTarget, addCardQuantity,
                 addCardError>>
  /\ BuilderFrame

\* lines 2579-2581
handleClearDeck ==
  /\ DialogClosed
  /\ SetDeck(EmptyDeck)
  /\ UNCHANGED <<savedDeck, cardCache, addCardTarget, addCardQuantity,
                 addCardError>>
  /\ BuilderFrame

\* line 2602 and UploadYDK.tsx lines 53-56: the parsed file becomes the deck
UploadYDK ==
  /\ DialogClosed
  /\ \E content \in YdkFiles : SetDeck(parseYDK(content))
  /\ UNCHANGED <<savedDeck, cardCache, addCardTarget, addCardQuantity,
                 addCardError>>
  /\ BuilderFrame

\* lines 2560-2567: the deck is stored under a name
handleSaveDeck ==
  /\ DialogClosed
  /\ TotalCards(DeckSections) <= MaxSaved
  /\ savedDeck' = [present |-> TRUE, deck |-> DeckSections]
  /\ UNCHANGED <<deck, extra, side, cardCache, addCardTarget,
                 addCardQuantity, addCardError>>
  /\ BuilderFrame

\* lines 2570-2576: a stored deck becomes the deck
handleLoadDeck ==
  /\ DialogClosed
  /\ savedDeck.present
  /\ SetDeck(savedDeck.deck)
  /\ UNCHANGED <<savedDeck, cardCache, addCardTarget, addCardQuantity,
                 addCardError>>
  /\ BuilderFrame

BuilderNext ==
  \/ handleAddCard \/ SetQuantity \/ CancelAdd
  \/ ConfirmRejectTotal \/ confirmAddCard
  \/ CardDropSearch \/ SectionDropSearch \/ CardDropDeck \/ SectionDropDeck
  \/ handleRemoveCard \/ handleClearDeck \/ UploadYDK
  \/ handleSaveDeck \/ handleLoadDeck

SpecDeck == BuilderInit /\ [][BuilderNext]_vars

(***************************************************************************)
(* Properties of the matcher.                                              *)
(***************************************************************************)

\* C1: within one handMatches evaluation, what a card identifier adds to the
\* group counts of all evaluated conditions never exceeds the number of
\* copies of that identifier in the hand.
C1_NoDoubleCount ==
  \A id \in Cards : contrib[id] <= Occurrences(hand, id)

\* the operator of a condition, as the matcher documents it
OpHolds(cond, gc) ==
  CASE cond.op = "=" -> gc = cond.count
    [] cond.op = "<=" -> gc <= cond.count
    [] cond.op = ">=" -> gc >= cond.count
    [] cond.op = "!=" -> gc = 0

\* C2: handMatches returns true iff every condition, in listed order,
\* satisfies its operator on its groupCount; it returns false at the first
\* condition that fails and evaluates no later condition.
C2_OperatorsAndShortCircuit ==
  pc = "done" =>
    /\ result \in BOOLEAN
    /\ \A c \in 1..Len(groupCounts) :
         c < Len(groupCounts) => OpHolds(conditions[c], groupCounts[c])
    /\ result = TRUE <=>
         /\ Len(groupCounts) = Len(conditions)
         /\ \A c \in 1..Len(conditions) : OpHolds(conditions[c], groupCounts[c])
    /\ result = FALSE =>
         /\ Len(groupCounts) >= 1
         /\ Len(groupCounts) = ci
         /\ ~OpHolds(conditions[ci], groupCounts[ci])

C2_Witness ==
  /\ pc = "done"
  /\ result = FALSE
  /\ Len(conditions) = 2
  /\ Len(groupCounts) = 1
  /\ conditions[1].op = "<="
  /\ groupCounts[1] = conditions[1].count + 1

\* C3: a condition with op "!=" holds iff its groupCount is 0, whatever its
\* stored count: replacing the count of a "!=" condition never changes the
\* outcome of handMatches.
C3_ExcludeIgnoresCount ==
  pc = "done" =>
    /\ \A c \in 1..Len(groupCounts) :
         conditions[c].op = "!=" =>
           ((c < Len(groupCounts) \/ result = TRUE) <=> groupCounts[c] = 0)
    /\ \A c \in 1..Len(conditions) : \A k \in 0..(MaxCount + 1) :
         conditions[c].op = "!=" =>
           handMatches(hand, [conditions EXCEPT ![c].count = k], cardCache)
             = result

C3_Witness ==
  /\ pc = "done"
  /\ result = TRUE
  /\ Len(hand) > 0
  /\ \E c \in 1..Len(conditions) :
       /\ conditions[c].op = "!="
       /\ conditions[c].count > 0
       /\ Len(conditions[c].group) > 0
       /\ groupCounts[c] = 0

\* C4: a target with the single condition "= k" over one literal card X
\* matches exactly the hands holding exactly k copies of X, for every k >= 0
\* (which makes the number of matching hands the hypergeometric count).
C4_ExactCopies ==
  (/\ pc = "done"
   /\ Len(conditions) = 1
   /\ conditions[1].op = "="
   /\ Len(conditions[1].group) = 1
   /\ ~conditions[1].group[1].attrKey)
  => (result = TRUE <=>
        Occurrences(hand, conditions[1].group[1].id) = conditions[1].count)

(***************************************************************************)
(* Properties of the sampler.                                              *)
(***************************************************************************)

\* C9: for 0 <= h <= |D| the sampled hand has length h, holds only cards of
\* the deck, holds no identifier more often than the deck does, and is a
\* selection of h distinct deck positions.
C9_HandIsSelection ==
  (spc = "done" /\ 0 <= handSize /\ handSize <= Len(deck)) =>
    /\ Len(drawn) = handSize
    /\ \A p \in 1..Len(drawn) : \E q \in 1..Len(deck) : drawn[p] = deck[q]
    /\ \A id \in SampleCards : Occurrences(drawn, id) <= Occurrences(deck, id)
    /\ \A p \in 1..Len(drawn) :
         /\ perm[p] \in 1..Len(deck)
         /\ drawn[p] = deck[perm[p]]
         /\ \A q \in 1..Len(drawn) : perm[p] = perm[q] => p = q

C9_Witness ==
  /\ spc = "done"
  /\ deck = <<"A", "B", "A">>
  /\ handSize = 2
  /\ drawn = <<"A", "A">>
  /\ ks = <<1, 0>>
  /\ perm = <<3, 1, 2>>

RECURSIVE Factorial(_)
Factorial(n) == IF n <= 0 THEN 1 ELSE n * Factorial(n - 1)

FirstPositions(seq, h) == {seq[p] : p \in 1..h}

\* the graph of the shuffle on deck positions: the pairs of a choice
\* sequence and the permutation it produces, for every deck size
ShuffleGraph ==
  UNION {{<<c, Shuffle(Positions(n), c)>> : c \in ChoiceSeqs(n)} :
           n \in 0..MaxDeck}

\* C10: the shuffle loop maps the choice sequences one-to-one onto the
\* permutations of the deck positions, and every selection of h positions
\* comes first for the same number, h! (|D|-h)!, of choice sequences.
C10_ShuffleBijection ==
  spc = "done" =>
    LET n == Len(deck)
        G == {g \in ShuffleGraph : Len(g[2]) = n}
    IN /\ {perm[p] : p \in 1..n} = 1..n
       /\ <<ks, perm>> \in G
       /\ \A g \in G : g[2] = perm => g[1] = ks
       /\ Cardinality({g[2] : g \in G}) = Factorial(n)
       /\ Cardinality({g[1] : g \in G}) = Factorial(n)
       /\ Cardinality({g \in G : FirstPositions(g[2], handSize)
                                   = FirstPositions(perm, handSize)})
            = Factorial(handSize) * Factorial(n - handSize)

C10_Witness ==
  /\ spc = "done"
  /\ Len(deck) = 3
  /\ handSize = 2
  /\ ks = <<0, 0>>
  /\ perm = <<2, 3, 1>>

(***************************************************************************)
(* Properties of the simulation driver.                                    *)
(***************************************************************************)
RECURSIVE Sum(_)
Sum(seq) == IF seq = <<>> THEN 0 ELSE Head(seq) + Sum(Tail(seq))

TrialStep == simpc = "loop" /\ i' = i + 1

\* C5: in exclusive mode a trial increments the hit count of the first
\* listed target that matches the drawn hand and of no other target, and
\* increments nothing when no target matches.
C5_ExclusiveFirstMatch ==
  [][(TrialStep /\ closure.exclusiveMode) =>
       LET M == MatchingTargets(trialHand', closure.inputTargets, cardCache)
       IN /\ M = {} => counts' = counts
          /\ M # {} =>
               LET first == CHOOSE t \in M : \A u \in M : t <= u
               IN counts' = [counts EXCEPT ![first] = @ + 1]
          /\ Sum(counts') <= Sum(counts) + 1]_vars

C5_Witness ==
  /\ simpc = "loop"
  /\ closure.exclusiveMode
  /\ i = 1
  /\ MatchingTargets(trialHand, closure.inputTargets, cardCache) = {1, 2}
  /\ counts = <<1, 0>>

\* C6: in inclusive mode a trial increments the hit count of target t by 1
\* if handMatches(hand, target t) and by 0 otherwise, for every target,
\* whatever the other targets are.
C6_InclusiveIndependent ==
  [][(TrialStep /\ ~closure.exclusiveMode) =>
       /\ Len(counts') = Len(closure.inputTargets)
       /\ \A t \in 1..Len(closure.inputTargets) :
            counts'[t] = counts[t] +
              (IF handMatches(trialHand', closure.inputTargets[t], cardCache)
               THEN 1 ELSE 0)]_vars

C6_Witness ==
  /\ simpc = "loop"
  /\ ~closure.exclusiveMode
  /\ i = 1
  /\ closure.inputTargets = <<TargetB, TargetA>>
  /\ trialHand = <<"A", "B">>
  /\ counts = <<1, 1>>

ExclusiveHits == IF closure.exclusiveMode THEN counts ELSE otherCounts
InclusiveHits == IF closure.exclusiveMode THEN otherCounts ELSE counts

\* C7: on the same sequence of hands the sum of the exclusive hit counts is
\* at most the sum of the inclusive hit counts, with equality exactly when
\* no hand matched more than one target.
C7_ExclusiveAtMostInclusive ==
  /\ Sum(ExclusiveHits) <= Sum(InclusiveHits)
  /\ Sum(ExclusiveHits) = Sum(InclusiveHits) <=> ~multi

C7_Witness ==
  /\ simpc = "loop"
  /\ i = 2
  /\ multi
  /\ Sum(ExclusiveHits) = 2
  /\ Sum(InclusiveHits) = 3

\* a run has published its hit counts and no later run has started
Published == simpc = "idle" /\ closure # NoClosure

\* C8: after a run of N trials the hit-count array has one entry per target
\* hand, every entry is between 0 and N, and in exclusive mode the entries
\* sum to at most N.
C8_HitCountsBounded ==
  /\ simpc = "loop" =>
       /\ Len(counts) = Len(closure.inputTargets)
       /\ \A t \in 1..Len(counts) : 0 <= counts[t] /\ counts[t] <= i
       /\ closure.exclusiveMode => Sum(counts) <= i
  /\ Published =>
       /\ i = closure.numSim
       /\ Len(results) = Len(closure.inputTargets)
       /\ \A t \in 1..Len(results) :
            0 <= results[t] /\ results[t] <= closure.numSim
       /\ closure.exclusiveMode => Sum(results) <= closure.numSim

C8_Witness ==
  /\ Published
  /\ closure.exclusiveMode
  /\ closure.numSim = 2
  /\ results = <<1, 1>>

(***************************************************************************)
(* Preconditions of runSimulation.                                         *)
(***************************************************************************)
RunPending(pos) == pos \in {"deferred", "loop"}

NothingRun ==
  /\ simpc' = simpc
  /\ UNCHANGED <<results, running, closure, counts, i, trialHand,
                 targetHands>>

\* C11: runSimulation with deck size < hand size is rejected with an error
\* before any hand is drawn or any trial is run, and publishes no hit counts;
\* no run is ever pending on a deck smaller than its hand size.
C11_SmallDeckRejected ==
  [][/\ (simpc = "idle" /\ ~running /\ Len(deck) < handSize) =>
          (error' = DeckError /\ NothingRun)
     /\ RunPending(simpc') => Len(closure'.deck) >= closure'.handSize]_vars

C11_Witness ==
  /\ simpc = "idle"
  /\ error = DeckError
  /\ Len(deck) + 1 = handSize
  /\ inputTargets = <<TargetA>>
  /\ results = <<>>
  /\ ~running

\* C12: runSimulation is rejected with an error before any trial whenever
\* there is no target hand or some target hand has zero conditions; no run
\* evaluates a target hand with an empty condition list.
C12_EmptyTargetRejected ==
  [][/\ (/\ simpc = "idle" /\ ~running
         /\ \/ inputTargets = <<>>
            \/ \E t \in 1..Len(inputTargets) : inputTargets[t] = <<>>) =>
          (error' \in {DeckError, TargetError} /\ NothingRun)
     /\ RunPending(simpc') =>
          /\ closure'.inputTargets # <<>>
          /\ \A t \in 1..Len(closure'.inputTargets) :
               closure'.inputTargets[t] # <<>>]_vars

C12_Witness ==
  /\ simpc = "idle"
  /\ error = TargetError
  /\ inputTargets = <<TargetA, TargetEmpty>>
  /\ Len(deck) >= handSize
  /\ results = <<>>
  /\ ~running

\* C13: runSimulation with a trial count < 1 is rejected with an error
\* before any trial is run and publishes no hit counts: no run is pending
\* or published with a trial count below 1.
C13_TrialCountRejected ==
  (RunPending(simpc) \/ (simpc = "idle" /\ closure # NoClosure)) =>
    closure.numSim >= 1

(***************************************************************************)
(* Purity of the matcher.                                                  *)
(***************************************************************************)

\* C14: handMatches is a pure function: a call leaves the hand, the
\* conditions and the lookup unchanged, starts from remaining counts built
\* from its own hand, and returns what a first call on the same arguments
\* returns, whatever was evaluated before; the same arguments twice in a
\* row give the same boolean.
C14_PureFunction ==
  [][/\ pc = "loop" =>
          (hand' = hand /\ conditions' = conditions /\ cardCache' = cardCache)
     /\ (pc = "done" /\ pc' = "loop") =>
          remainingCounts' = HandCounts(hand')
     /\ pc' = "done" =>
          /\ result' = handMatches(hand', conditions', cardCache')
          /\ (prevCall'.hand = hand' /\ prevCall'.conditions = conditions') =>
               result' = prevCall'.result]_vars

C14_Witness ==
  /\ pc = "done"
  /\ prevCall = [hand |-> <<"A">>, conditions |-> TargetA, result |-> TRUE]
  /\ hand = <<"A">>
  /\ conditions = TargetA
  /\ remainingCounts = [id \in {"A"} |-> 0]
  /\ result = TRUE

(***************************************************************************)
(* Properties of the matcher on missing metadata, groups and filters.      *)
(***************************************************************************)
ItemStep == pc = "loop" /\ gi' = gi + 1

\* C15: a card identifier without an entry in the metadata lookup adds 0 to
\* groupCount through every filter member, whatever its predicates, still
\* adds 1 through a literal member naming it while a copy remains, and the
\* evaluation still ends with a boolean.
C15_MissingMetadata ==
  [][/\ ItemStep =>
          LET item == conditions[ci].group[gi] IN
          \A id \in Cards \ DOMAIN cardCache :
            /\ item.attrKey =>
                 /\ contrib'[id] = contrib[id]
                 /\ groupCount' - groupCount <=
                      Cardinality({p \in 1..Len(hand) :
                                     hand[p] \in DOMAIN cardCache})
            /\ (~item.attrKey /\ item.id = id
                  /\ Remaining(remainingCounts, id) > 0) =>
                 /\ contrib'[id] = contrib[id] + 1
                 /\ groupCount' = groupCount + 1
     /\ pc' = "done" => result' \in BOOLEAN]_vars

C15_Witness ==
  /\ pc = "done"
  /\ hand = <<"C", "A">>
  /\ conditions[1].group = <<FAny, LiteralCard("C")>>
  /\ contrib = [id \in Cards |-> IF id = "B" THEN 0 ELSE 1]
  /\ groupCounts = <<2>>
  /\ result \in BOOLEAN

\* C16: one condition ">= 1" over a group of two distinct literal cards
\* matches a hand iff the hand holds a copy of one of the two.
C16_EitherLiteral ==
  (/\ pc = "done"
   /\ Len(conditions) = 1
   /\ conditions[1].op = ">="
   /\ conditions[1].count = 1
   /\ Len(conditions[1].group) = 2
   /\ ~conditions[1].group[1].attrKey
   /\ ~conditions[1].group[2].attrKey
   /\ conditions[1].group[1].id # conditions[1].group[2].id)
  => (result = TRUE <=>
        \/ Occurrences(hand, conditions[1].group[1].id) >= 1
        \/ Occurrences(hand, conditions[1].group[2].id) >= 1)

C16_Witness ==
  /\ pc = "done"
  /\ conditions = <<HandCardCondition(
                      <<LiteralCard("A"), LiteralCard("B")>>, ">=", 1)>>
  /\ hand = <<"C", "B">>
  /\ result = TRUE

\* the cards of the hand, copies counted separately, whose metadata
\* attribute is DARK
DarkInHand ==
  Cardinality({p \in 1..Len(hand) :
                 /\ hand[p] \in DOMAIN cardCache
                 /\ cardCache[hand[p]].attribute = "DARK"})

\* C17: one condition ">= 2" over a single filter card with
\* filterByAttribute = "DARK" and no other predicate matches a hand iff the
\* hand holds at least 2 DARK cards, whatever their identifiers.
C17_TwoDarkCards ==
  (/\ pc = "done"
   /\ Len(conditions) = 1
   /\ conditions[1].op = ">="
   /\ conditions[1].count = 2
   /\ conditions[1].group = <<FDark>>)
  => (result = TRUE <=> DarkInHand >= 2)

C17_Witness ==
  /\ pc = "done"
  /\ cardCache = DarkCache
  /\ conditions = <<HandCardCondition(<<FDark>>, ">=", 2)>>
  /\ hand = <<"B", "A">>
  /\ result = TRUE

\* C18: for the empty hand handMatches returns true for every target whose
\* conditions all have op "!=", and false for every target with a condition
\* "=" or ">=" of count >= 1, for literal and filter members alike.
C18_EmptyHand ==
  (pc = "done" /\ hand = <<>>) =>
    /\ (\A c \in 1..Len(conditions) : conditions[c].op = "!=") =>
         result = TRUE
    /\ (\E c \in 1..Len(conditions) :
          conditions[c].op \in {"=", ">="} /\ conditions[c].count >= 1) =>
         result = FALSE

C18_Witness ==
  /\ pc = "done"
  /\ hand = <<>>
  /\ conditions = <<HandCardCondition(<<FAny>>, "!=", 1),
                    HandCardCondition(<<LiteralCard("A")>>, ">=", 1)>>
  /\ groupCounts = <<0, 0>>
  /\ result = FALSE

(***************************************************************************)
(* Properties of the results table and of the deck.                        *)
(***************************************************************************)
\* C19: the percentage shown for each target hand is hits / trials x 100
\* with trials the trial count of the run that produced the hits, hence
\* between 0 and 100, also after later edits of the trial-count input.
C19_PercentOfRun ==
  (Published /\ closure.numSim >= 1) =>
    \A idx \in 1..Len(targetHands) :
      idx <= Len(results) =>
        /\ ShownPercent(idx) = Percentage(results[idx], closure.numSim)
        /\ ShownPercent(idx).text = "number"
        /\ ShownPercent(idx).hundredths \in 0..10000

\* C20: drawing a hand leaves deck.main unchanged in order and contents, over
\* any number of draws, and every draw starts from a fresh copy of the deck.
C20_DeckUnchanged ==
  [][/\ deck' = deck
     /\ (spc = "idle" /\ spc' = "shuffle") => shuffled' = deck
     /\ spc' = "done" =>
          \A id \in SampleCards :
            Occurrences(shuffled', id) = Occurrences(deck', id)]_vars

C20_Witness ==
  /\ spc = "done"
  /\ deck = <<"A", "B", "A">>
  /\ shuffled = <<"B", "A", "A">>
  /\ handSize = 1
  /\ drawn = <<"B">>

(***************************************************************************)
(* Properties of one group member.                                         *)
(***************************************************************************)
RECURSIVE SetSum(_, _)
SetSum(f, S) ==
  IF S = {} THEN 0
  ELSE LET x == CHOOSE y \in S : TRUE IN f[x] + SetSum(f, S \ {x})

\* the copies of each identifier that satisfy the filter and still have a
\* remaining count
Available(groupItem) ==
  [id \in Cards |->
     IF FilterAccepts(groupItem, id, cardCache)
     THEN Remaining(remainingCounts, id) ELSE 0]

\* C21: a filter-card member adds to groupCount exactly the number of hand
\* occurrences that satisfy its predicates and still have a remaining count,
\* and decrements the remaining count once per contributing occurrence.
C21_FilterCountsRemaining ==
  [][(ItemStep /\ conditions[ci].group[gi].attrKey) =>
       LET avail == Available(conditions[ci].group[gi]) IN
       /\ groupCount' = groupCount + SetSum(avail, Cards)
       /\ \A id \in Cards :
            Remaining(remainingCounts', id)
              = Remaining(remainingCounts, id) - avail[id]]_vars

\* C22: a literal member adds 1 to groupCount and takes 1 from the remaining
\* count of its identifier when that count is > 0, and changes nothing
\* otherwise; no remaining count becomes negative and the counts of the
\* identifiers not named or matched are unchanged.
C22_LiteralMember ==
  [][ItemStep =>
       LET item == conditions[ci].group[gi] IN
       /\ ~item.attrKey =>
            /\ Remaining(remainingCounts, item.id) > 0 =>
                 /\ groupCount' = groupCount + 1
                 /\ Remaining(remainingCounts', item.id)
                      = Remaining(remainingCounts, item.id) - 1
            /\ ~(Remaining(remainingCounts, item.id) > 0) =>
                 /\ groupCount' = groupCount
                 /\ remainingCounts' = remainingCounts
            /\ \A id \in Cards \ {item.id} :
                 Remaining(remainingCounts', id) = Remaining(remainingCounts, id)
       /\ item.attrKey =>
            \A id \in Cards :
              ~FilterAccepts(item, id, cardCache) =>
                Remaining(remainingCounts', id) = Remaining(remainingCounts, id)
       /\ DOMAIN remainingCounts' = DOMAIN remainingCounts
       /\ \A id \in DOMAIN remainingCounts' : remainingCounts'[id] >= 0]_vars

C22_Witness ==
  /\ pc = "done"
  /\ hand = <<"A", "B">>
  /\ conditions = <<HandCardCondition(
                      <<LiteralCard("A"), LiteralCard("A")>>, "=", 1)>>
  /\ groupCounts = <<1>>
  /\ remainingCounts = [id \in {"A", "B"} |-> IF id = "A" THEN 0 ELSE 1]
  /\ result = TRUE

\* the metadata of a card satisfies every predicate the filter specifies
MeetsPredicates(m, id) ==
  /\ id \in DOMAIN cardCache
  /\ m.filterByAttribute # "" =>
       cardCache[id].attribute = m.filterByAttribute
  /\ m.filterByType # "" => cardCache[id].type = m.filterByType
  /\ m.filterByLevel.min # NoBound =>
       cardCache[id].level >= m.filterByLevel.min
  /\ m.filterByLevel.max # NoBound =>
       cardCache[id].level <= m.filterByLevel.max
  /\ m.filterByATK.min # NoBound => cardCache[id].atk >= m.filterByATK.min
  /\ m.filterByATK.max # NoBound => cardCache[id].atk <= m.filterByATK.max
  /\ m.filterByArchetype # "" =>
       cardCache[id].archetype = m.filterByArchetype

\* C23: a filter card that specifies any subset of the predicates, with or
\* without an attribute, counts exactly the hand cards whose metadata
\* satisfies every specified predicate; it is never treated as a literal.
C23_AnyPredicateSubset ==
  (pc = "done" /\ Len(conditions) = 1 /\ Len(conditions[1].group) = 1) =>
    groupCounts[1]
      = Cardinality({p \in 1..Len(hand) :
                       MeetsPredicates(conditions[1].group[1], hand[p])})

(***************************************************************************)
(* Properties of the deck builder.                                         *)
(***************************************************************************)
\* C24: after any sequence of deck operations no card identifier occurs
\* more than 3 times across main, extra and side.
C24_CopyLimit ==
  \A id \in BuilderCards : getTotalCopies(DeckSections, id) <= MaxCopies

(***************************************************************************)
(* Properties of the simulation page under edits of its inputs.            *)
(***************************************************************************)
\* C25: whenever results is non-empty it has one entry per stored target
\* hand, the hit count of that target hand in the same run, also between an
\* accepted runSimulation call and the end of its deferred loop.
C25_ResultsMatchTargets ==
  (results # <<>> /\ closure.numSim >= 1) =>
    /\ Len(results) = Len(targetHands)
    /\ simpc = "idle" => targetHands = closure.inputTargets

\* line 1827: the banner "Exclusive Mode Active" of the results panel
ShownExclusive == exclusiveMode

\* lines 1831, 1843, 1879: the trial count the results panel divides by
ShownTrials == numSim

\* C26: the published results are described with the mode and the trial
\* count of the run that produced them, whatever was edited since the call.
C26_DescribedAsRun ==
  (Published /\ results # <<>> /\ closure.numSim >= 1) =>
    /\ ShownExclusive = closure.exclusiveMode
    /\ ShownTrials = closure.numSim

\* C27: a runSimulation call rejected by a precondition changes only the
\* error message: results, targetHands and running keep their values and no
\* trial loop is scheduled; an accepted call clears the error.
C27_RejectChangesErrorOnly ==
  [][/\ (error' # error /\ error' # "") =>
          /\ simpc = "idle" /\ ~running
          /\ error' = IF Len(deck) < handSize THEN DeckError ELSE TargetError
          /\ Len(deck) >= handSize =>
               \/ inputTargets = <<>>
               \/ \E t \in 1..Len(inputTargets) : inputTargets[t] = <<>>
          /\ UNCHANGED <<results, targetHands, running, closure, simpc,
                         counts, i>>
     /\ (simpc = "idle" /\ simpc' = "deferred") => error' = ""
     /\ RunPending(simpc') => error' = ""]_vars

C27_Witness ==
  /\ simpc = "idle"
  /\ error = DeckError
  /\ ~running
  /\ results = <<1>>
  /\ targetHands = <<TargetA>>
  /\ closure.deck = <<"A">> /\ closure.handSize = 1 /\ closure.numSim = 1
  /\ handSize = 2

\* C28: an accepted runSimulation call sets running, and is eventually
\* followed by one publication of results with running reset; the Run button
\* is disabled while running, so at most one trial loop is pending.
C28_RunCompletes ==
  /\ [](running <=> RunPending(simpc))
  /\ [][/\ (~running /\ running') =>
             (simpc = "idle" /\ simpc' = "deferred")
        /\ (simpc = "idle" /\ simpc' = "deferred") => (~running /\ running')
        /\ (running /\ ~running') =>
             (simpc = "loop" /\ simpc' = "idle" /\ results' = counts)
        /\ running => closure' = closure]_vars
  /\ (running ~> ~running)

C28_Witness ==
  /\ simpc = "idle"
  /\ ~running
  /\ error = ""
  /\ closure.numSim = 2
  /\ i = 2
  /\ results = <<2>>
  /\ numSim = 0

(***************************************************************************)
(* Properties of the stored target hands.                                  *)
(***************************************************************************)
\* C29: storing inputTargets and restoring them on reload preserves how
\* handMatches treats every member: handMatches gives the same result on
\* every hand for the target hands in memory and for the restored ones.
C29_RoundTripPreserves ==
  \A h \in CallHands :
    \A t \in 1..Len(inputTargets) :
      handMatches(h, Restore(storage)[t], cardCache)
        = handMatches(h, inputTargets[t], cardCache)

(***************************************************************************)
(* Properties of the deck document.                                        *)
(***************************************************************************)
\* C30: after any sequence of addSimulationResult calls the simulations
\* list has at most 100 entries, and once more than 100 results were added
\* it holds exactly the 100 most recently added, in the order of addition.
C30_KeepsLastHundred ==
  /\ Len(simulations) <= KeepLast
  /\ added <= KeepLast => simulations = [p \in 1..added |-> p]
  /\ added > KeepLast =>
       simulations = [p \in 1..KeepLast |-> added - KeepLast + p]

C30_Witness ==
  /\ added = KeepLast + 2
  /\ Len(simulations) = KeepLast
  /\ Head(simulations) = 3
  /\ simulations[KeepLast] = added

====
